---- MODULE Spec2Model ----
(***************************************************************************)
(* Model of src/utils.py: the patch tiler cut_image_strided, the palette   *)
(* codec (mask2rgb, rgb_to_onehot + argmax) and the construction and       *)
(* indexing of ChangeDetectionDataset.                                      *)
(*                                                                         *)
(* Arrays.  A numpy array is a record [base, shape, strides]: the buffer   *)
(* it reads, its shape and its strides (in elements, not bytes).  Element  *)
(* idx of the array is the buffer element at offset Sum idx[d]*strides[d]. *)
(* A stored patch is a record [base, off, strides]: the gather map of the  *)
(* patch into the buffer it was cut from (base is <<file, array>>); its    *)
(* shape is (B, 256, 256) for a raster and (256, 256) for a label.         *)
(* Elementwise operations (normalisation, torch.from_numpy) keep that map  *)
(* unchanged.                                                              *)
(*                                                                         *)
(* Label masks of the dataset are far too large to enumerate pixel by      *)
(* pixel (the code requires 16*256*256 pixels), so a mask is stored run-   *)
(* length encoded in row-major order: px[r] is the value of run r and      *)
(* len[r] its number of pixels.  Elementwise operations act on px.         *)
(***************************************************************************)
EXTENDS Integers, Sequences, FiniteSets, TLC

VARIABLES
    \* ---- cut_image_strided on its own (SpecTiler)
    t_pc,        \* "in" before the call, "out" after it
    t_image,     \* the argument `image`: [base, shape, strides]
    t_new_size,  \* the argument `new_size`: <<Ty, Tx>>
    t_mem,       \* the buffer `image` reads: t_mem[o + 1] is element o
    t_tiles,     \* the returned 5-d array, read out element by element
    \* ---- the palette codec on its own (SpecCodec)
    c_pc,        \* "mask", "rgb" or "decoded"
    c_mask,      \* class-index mask given to mask2rgb (flat, row-major)
    c_rgb,       \* RGB pixels (flat, as rgb_arr.reshape((-1, 3)))
    c_encoded,   \* rgb_to_onehot(c_rgb)
    c_indices,   \* np.argmax(c_encoded, axis=2)
    \* ---- ChangeDetectionDataset (Spec)
    pc,          \* "loop", "folder", "done" or "failed"
    err,         \* the exception that ended construction or __getitem__
    train,       \* self.train
    imgs_1, imgs_2, labels,   \* self.imgs_1, self.imgs_2, self.labels
    n_pix,       \* the local n_pix of __init__
    n_pixK,      \* the locals n_pix0 .. n_pix7 of __init__, by class
    weights,     \* self.weights: <<numerator, denominator>> per class
    cm_rgb_np, cm_encoded, cm_indices_np,  \* the last decoded mask (RLE)
    corpus,      \* history: the files processed so far, in order
    folder,      \* inference: the sorted '-01.tif' list being enumerated
    idx,         \* inference: the enumerate index into folder
    nfolders,    \* inference: folders enumerated so far
    nfolder_files, \* inference: history, the lengths of the folders enumerated
    paired,      \* inference: the <<i, successor>> pairs read in this folder
    sample       \* what the last __getitem__ returned

t_vars == <<t_pc, t_image, t_new_size, t_mem, t_tiles>>
c_vars == <<c_pc, c_mask, c_rgb, c_encoded, c_indices>>
d_vars == <<pc, err, train, imgs_1, imgs_2, labels, n_pix, n_pixK, weights,
            cm_rgb_np, cm_encoded, cm_indices_np, corpus, folder, idx,
            nfolders, nfolder_files, paired, sample>>
vars == <<t_vars, c_vars, d_vars>>

----------------------------------------------------------------------------
(* Bounds of the model *)
MaxBands == 2        \* bands of a tiler input
MaxSide == 4         \* height and width of a tiler input
MaxTile == 2         \* tile height and width of a tiler input
MaxPixels == 2       \* pixels of a codec input
MaxFiles == 2        \* label files of a training corpus
MaxFolderFiles == 25 \* '-01.tif' files of an L3H-SR folder
MaxFolders == 2      \* L3H-SR folders of an inference corpus

(* Program constants *)
PatchSize == 256         \* cut_image_strided(..., (256, 256)); reshape(16, 256, 256)
NumLabelPatches == 16    \* cm_indices_np.reshape(16, 256, 256)
SkippedIdx == 23         \* if idx != 23
NumClasses == 8          \* len(self.color_label_dict)

----------------------------------------------------------------------------
(* numpy helpers *)

RECURSIVE SumSeq(_)
SumSeq(s) == IF s = <<>> THEN 0 ELSE Head(s) + SumSeq(Tail(s))

RECURSIVE ProdSeq(_)
ProdSeq(s) == IF s = <<>> THEN 1 ELSE Head(s) * ProdSeq(Tail(s))

\* offset of element ix of an array with these strides
Offset(strides, ix) == SumSeq([d \in 1..Len(strides) |-> ix[d] * strides[d]])

\* strides of a freshly allocated (C-contiguous) array of this shape
CStrides(shape) ==
    [d \in 1..Len(shape) |-> ProdSeq(SubSeq(shape, d + 1, Len(shape)))]

\* ndarray.transpose(axes), axes 0-based as in the code
Transpose(a, axes) ==
    [base |-> a.base,
     shape |-> [d \in 1..Len(axes) |-> a.shape[axes[d] + 1]],
     strides |-> [d \in 1..Len(axes) |-> a.strides[axes[d] + 1]]]

----------------------------------------------------------------------------
(* cut_image_strided, lines 80-101 *)

cut_image_strided_ceil(image, new_size) ==
    LET new_size_y == new_size[1]
        new_size_x == new_size[2]
        nr_images_x == (image.shape[3] + new_size[2] - 1) \div new_size[2]
        nr_images_y == (image.shape[2] + new_size[1] - 1) \div new_size[1]
    IN [base |-> image.base,
        shape |-> <<nr_images_y, nr_images_x, image.shape[1], new_size_y, new_size_x>>,
        strides |-> <<image.strides[2] * new_size_y, image.strides[3] * new_size_x,
                      image.strides[1], image.strides[2], image.strides[3]>>]

cut_image_strided_swapped(image, new_size) ==
    LET new_size_y == new_size[1]
        new_size_x == new_size[2]
        nr_images_x == image.shape[3] \div new_size[2]
        nr_images_y == image.shape[2] \div new_size[1]
    IN [base |-> image.base,
        shape |-> <<nr_images_y, nr_images_x, image.shape[1], new_size_y, new_size_x>>,
        strides |-> <<image.strides[2] * new_size_y, image.strides[3] * new_size_x,
                      image.strides[1], image.strides[3], image.strides[2]>>]

cut_image_strided(image, new_size) ==
    LET bands == image.shape[1]
        new_size_y == new_size[1]
        new_size_x == new_size[2]
        old_size_y == image.shape[2]
        old_size_x == image.shape[3]
        nr_images_x == old_size_x \div new_size[2]
        nr_images_y == old_size_y \div new_size[1]
    IN [base |-> image.base,
        shape |-> <<nr_images_y, nr_images_x, bands, new_size_y, new_size_x>>,
        strides |-> <<image.strides[2] * new_size_y, image.strides[3] * new_size_x,
                      image.strides[1], image.strides[2], image.strides[3]>>]

\* the index tuples of a 5-d array of this shape (0-based, as in numpy)
Indices5(shape) ==
    {<<i, j, b, y, x>> : i \in 0..(shape[1] - 1), j \in 0..(shape[2] - 1),
                         b \in 0..(shape[3] - 1), y \in 0..(shape[4] - 1),
                         x \in 0..(shape[5] - 1)}

\* what a read outside the buffer yields (as_strided checks no bounds)
Garbage == {-1}

\* the elements of array a over buffer mem, for one outcome g of the reads
\* that fall outside the buffer
ReadOut5(a, mem, g) ==
    [ix \in Indices5(a.shape) |->
        IF Offset(a.strides, ix) + 1 \in DOMAIN mem
        THEN mem[Offset(a.strides, ix) + 1] ELSE g]

\* an array as skimage.io.imread returns it: (H, W, B), C-contiguous
imread(base, H, W, B) ==
    [base |-> base, shape |-> <<H, W, B>>, strides |-> CStrides(<<H, W, B>>)]

TIdle ==
    /\ t_pc = "idle"
    /\ t_image = [base |-> <<0, "none">>, shape |-> <<>>, strides |-> <<>>]
    /\ t_new_size = <<>>
    /\ t_mem = <<>>
    /\ t_tiles = <<>>

\* the inputs of cut_image_strided: a (B, H, W) array, either allocated in that
\* order or, as __init__ passes it, an (H, W, B) image transposed by (2, 0, 1)
InitT ==
    /\ t_pc = "in"
    /\ \E B \in 1..MaxBands, H \in 1..MaxSide, W \in 1..MaxSide :
         /\ t_image \in
              { [base |-> <<0, "t">>, shape |-> <<B, H, W>>,
                 strides |-> CStrides(<<B, H, W>>)],
                Transpose(imread(<<0, "t">>, H, W, B), <<2, 0, 1>>) }
         /\ t_mem = [o \in 1..(B * H * W) |-> o - 1]
    /\ t_new_size \in (1..MaxTile) \X (1..MaxTile)
    /\ t_tiles = <<>>

Cut ==
    /\ t_pc = "in"
    /\ t_pc' = "out"
    /\ \E g \in Garbage :
         t_tiles' = ReadOut5(cut_image_strided(t_image, t_new_size), t_mem, g)
    /\ UNCHANGED <<t_image, t_new_size, t_mem>>

----------------------------------------------------------------------------
(* The palette codec *)

\* mask2rgb's local color_label_dict, lines 62-69

color_label_dict(k) ==
    CASE k = 0 -> <<0, 0, 0>>
      [] k = 1 -> <<128, 0, 0>>
      [] k = 2 -> <<0, 128, 0>>
      [] k = 3 -> <<128, 128, 0>>
      [] k = 4 -> <<0, 0, 128>>
      [] k = 5 -> <<128, 0, 128>>
      [] k = 6 -> <<0, 128, 128>>
      [] k = 7 -> <<128, 128, 128>>

self_color_label_dict_typo(k) ==
    CASE k = 0 -> <<0, 0, 0>>
      [] k = 1 -> <<128, 0, 0>>
      [] k = 2 -> <<0, 128, 0>>
      [] k = 3 -> <<128, 128, 0>>
      [] k = 4 -> <<0, 0, 128>>
      [] k = 5 -> <<128, 0, 0>>
      [] k = 6 -> <<0, 128, 128>>
      [] k = 7 -> <<128, 128, 128>>

\* self.color_label_dict of ChangeDetectionDataset, lines 115-122
self_color_label_dict(k) ==
    CASE k = 0 -> <<0, 0, 0>>
      [] k = 1 -> <<128, 0, 0>>
      [] k = 2 -> <<0, 128, 0>>
      [] k = 3 -> <<128, 128, 0>>
      [] k = 4 -> <<0, 0, 128>>
      [] k = 5 -> <<128, 0, 128>>
      [] k = 6 -> <<0, 128, 128>>
      [] k = 7 -> <<128, 128, 128>>

Classes == 0..(NumClasses - 1)

\* mask2rgb on a flat mask.  `empty` is the content np.empty happened to hold:
\* a pixel whose class is no key of the palette keeps it.
mask2rgb(mask, empty) ==
    [p \in DOMAIN mask |->
        IF mask[p] \in Classes THEN color_label_dict(mask[p]) ELSE empty[p]]

\* one row of rgb_to_onehot: layer i is 1 iff the pixel equals palette entry i.
\* Layer i (0-based, as in the code) is element i + 1 of the row.
OneHotRow(rgb) ==
    [i \in 1..NumClasses |-> IF rgb = self_color_label_dict(i - 1) THEN 1 ELSE 0]

\* rgb_to_onehot on the flat pixel list rgb_arr.reshape((-1, 3))
rgb_to_onehot(rgb_arr) == [p \in DOMAIN rgb_arr |-> OneHotRow(rgb_arr[p])]

argmax_last(row) ==
    (CHOOSE i \in DOMAIN row :
        /\ \A j \in DOMAIN row : row[j] <= row[i]
        /\ \A j \in DOMAIN row : j > i => row[j] < row[i]) - 1

\* np.argmax of one row: the first (0-based) index holding the maximum
argmax(row) ==
    (CHOOSE i \in DOMAIN row :
        /\ \A j \in DOMAIN row : row[j] <= row[i]
        /\ \A j \in DOMAIN row : j < i => row[j] < row[i]) - 1

\* np.argmax(cm_encoded, axis=2) on the flat pixel list
argmax_axis2(encoded) == [p \in DOMAIN encoded |-> argmax(encoded[p])]

\* values a byte of an uninitialised or foreign pixel is drawn from
ByteValues == {0, 128, 255}
Colours == ByteValues \X ByteValues \X ByteValues

CIdle ==
    /\ c_pc = "idle"
    /\ c_mask = <<>>
    /\ c_rgb = <<>>
    /\ c_encoded = <<>>
    /\ c_indices = <<>>

\* masks hold "labels value between 0 and 8" (mask2rgb's docstring)
InitC ==
    /\ c_pc = "mask"
    /\ \E n \in 1..MaxPixels : c_mask \in [1..n -> 0..NumClasses]
    /\ c_rgb = <<>>
    /\ c_encoded = <<>>
    /\ c_indices = <<>>

Encode ==
    /\ c_pc = "mask"
    /\ \E empty \in [{p \in DOMAIN c_mask : c_mask[p] \notin Classes} -> Colours] :
         c_rgb' = mask2rgb(c_mask, empty)
    /\ c_pc' = "rgb"
    /\ UNCHANGED <<c_mask, c_encoded, c_indices>>

\* lines 153-154: cm_encoded = rgb_to_onehot(...); np.argmax(cm_encoded, axis=2)
Decode ==
    /\ c_pc = "rgb"
    /\ c_encoded' = rgb_to_onehot(c_rgb)
    /\ c_indices' = argmax_axis2(rgb_to_onehot(c_rgb))
    /\ c_pc' = "decoded"
    /\ UNCHANGED <<c_mask, c_rgb>>

----------------------------------------------------------------------------
(* ChangeDetectionDataset *)

None == <<>>
NoPatch == [base |-> <<0, "none">>, off |-> 0, strides |-> <<>>]
NoSample == [idx |-> 0, err |-> "none", keys |-> {}, I1 |-> NoPatch,
             I2 |-> NoPatch, label |-> NoPatch]
NoMask == [shape |-> <<>>, px |-> <<>>, len |-> <<>>]

\* a[p] for the 0-based first index p of array a: the gather map of the slice
SubArray(a, p) ==
    [base |-> a.base, off |-> p * a.strides[1], strides |-> Tail(a.strides)]

\* lines 162-165: the 5-d tile array reshaped to (ny * nx, B, s1, s2), a
\* row-major copy, and each of its slices in turn
TilePatches(tiles) ==
    LET ny == tiles.shape[1]
        nx == tiles.shape[2]
    IN [q \in 1..(ny * nx) |->
          [base |-> tiles.base,
           off |-> ((q - 1) \div nx) * tiles.strides[1]
                   + ((q - 1) % nx) * tiles.strides[2],
           strides |-> SubSeq(tiles.strides, 3, 5)]]

\* lines 161-165 and 167-171: the patches one raster adds to its sequence
RasterPatches(I) ==
    TilePatches(cut_image_strided(Transpose(I, <<2, 0, 1>>), <<PatchSize, PatchSize>>))

\* ndarray.reshape of a C-contiguous array; the caller checks CanReshape
reshape(a, newshape) ==
    [base |-> a.base, shape |-> newshape, strides |-> CStrides(newshape)]

CanReshape(a, newshape) == ProdSeq(a.shape) = ProdSeq(newshape)

LabelShape == <<NumLabelPatches, PatchSize, PatchSize>>

\* lines 157-159: the patches one decoded mask adds to self.labels
LabelPatches(cm) ==
    [q \in 1..LabelShape[1] |-> SubArray(reshape(cm, LabelShape), q - 1)]

\* np.count_nonzero(cm_indices_np == k) on a run-length encoded mask
count_nonzero_eq(indices, k) ==
    SumSeq([r \in DOMAIN indices.px |->
              IF indices.px[r] = k THEN indices.len[r] ELSE 0])

compute_for_INS_weights_shifted(indices, npix, npixK) ==
    [k \in Classes |-> npixK[k] + count_nonzero_eq(indices, (k + 1) % NumClasses)]

\* lines 240-254: the eight running counts, returned; n_pix is not
compute_for_INS_weights(indices, npix, npixK) ==
    [k \in Classes |-> npixK[k] + count_nonzero_eq(indices, k)]

\* Python's list[i]
InList(s, i) == -Len(s) <= i /\ i < Len(s)
ListGet(s, i) == IF i >= 0 THEN s[i + 1] ELSE s[Len(s) + i + 1]

\* __len__, lines 207-208
DatasetLen == Len(imgs_1)

----------------------------------------------------------------------------
(* Inputs of the construction *)

\* raster files: (H, W, B)
RasterPairs ==
    { <<<<1024, 1024, 4>>, <<1024, 1024, 4>>>>,
      <<<<1000, 1030, 3>>, <<1000, 1030, 3>>>>,
      <<<<1024, 1024, 4>>, <<512, 512, 4>>>> }

\* label masks: a shape and the colours of its runs, all runs equally long
MaskOf(shape, colours) ==
    [shape |-> shape, px |-> colours,
     len |-> [r \in DOMAIN colours |-> (shape[1] * shape[2]) \div Len(colours)]]
\* the palette in order, with entry k replaced by the colour rgb
PaletteBut(k, rgb) ==
    [r \in 1..NumClasses |-> IF r = k + 1 THEN rgb ELSE color_label_dict(r - 1)]
MaskInputs ==
    { MaskOf(<<1024, 1024>>, PaletteBut(0, color_label_dict(0))),
      MaskOf(<<1024, 1024>>, PaletteBut(0, <<1, 2, 3>>)),
      MaskOf(<<2048, 512>>, PaletteBut(7, <<128, 128, 127>>)),
      MaskOf(<<1024, 1024>>, <<color_label_dict(3), color_label_dict(0)>>),
      MaskOf(<<512, 512>>, PaletteBut(0, color_label_dict(0))) }

\* the files of one L3H-SR folder, natural-sorted: n files whose shapes cycle
FolderShapes == <<<<256, 256, 4>>, <<300, 520, 3>>, <<512, 700, 4>>>>
FolderOf(n, m, s) ==
    [i \in 1..n |-> FolderShapes[((i * m + s) % Len(FolderShapes)) + 1]]
FolderInputs ==
    {FolderOf(n, m, s) : n \in 0..MaxFolderFiles, m \in 0..1, s \in 0..1}

DRest ==
    /\ err = "none"
    /\ imgs_1 = <<>>
    /\ imgs_2 = <<>>
    /\ labels = <<>>
    /\ n_pix = 0
    /\ n_pixK = [k \in Classes |-> 0]
    /\ weights = None
    /\ cm_rgb_np = NoMask
    /\ cm_encoded = NoMask
    /\ cm_indices_np = NoMask
    /\ corpus = <<>>
    /\ folder = <<>>
    /\ idx = 0
    /\ nfolders = 0
    /\ nfolder_files = <<>>
    /\ paired = {}
    /\ sample = NoSample

\* __init__ lines 124-141, then the branch on `train`
InitD ==
    /\ pc = "loop"
    /\ train \in BOOLEAN
    /\ DRest

DIdle ==
    /\ pc = "idle"
    /\ train = TRUE
    /\ DRest

----------------------------------------------------------------------------
(* Training-mode construction, lines 143-173 *)

\* one iteration of the inner loop, lines 147-171, on one label file
TrainFile ==
    /\ pc = "loop"
    /\ train
    /\ Len(corpus) < MaxFiles
    /\ \E m \in MaskInputs, rp \in RasterPairs :
         LET f == Len(corpus) + 1
             I1 == imread(<<f, "I1">>, rp[1][1], rp[1][2], rp[1][3])
             I2 == imread(<<f, "I2">>, rp[2][1], rp[2][2], rp[2][3])
             encoded == [m EXCEPT !.px = rgb_to_onehot(m.px)]
             indices == [encoded EXCEPT !.px = argmax_axis2(encoded.px)]
             cm == [base |-> <<f, "cm">>, shape |-> m.shape,
                    strides |-> CStrides(m.shape)]
         IN /\ cm_rgb_np' = m
            /\ cm_encoded' = encoded
            /\ cm_indices_np' = indices
            /\ n_pixK' = compute_for_INS_weights(indices, n_pix, n_pixK)
            /\ corpus' = Append(corpus, [mask |-> m, I1 |-> rp[1], I2 |-> rp[2]])
            /\ IF CanReshape(cm, LabelShape)
               THEN /\ labels' = labels \o LabelPatches(cm)
                    /\ imgs_1' = imgs_1 \o RasterPatches(I1)
                    /\ imgs_2' = imgs_2 \o RasterPatches(I2)
                    /\ UNCHANGED <<pc, err>>
               ELSE /\ pc' = "failed"
                    /\ err' = "ValueError"
                    /\ UNCHANGED <<labels, imgs_1, imgs_2>>
    /\ UNCHANGED <<train, n_pix, weights, folder, idx, nfolders, nfolder_files,
                   paired, sample>>
    /\ UNCHANGED <<t_vars, c_vars>>

\* lines 172-173: the list [1 / n_pix0, ..., 1 / n_pix7]
weights_of(npixK) == [k \in 1..NumClasses |-> <<1, npixK[k - 1]>>]

TrainFinish_inf ==
    /\ pc = "loop"
    /\ train
    /\ pc' = "done"
    /\ weights' = weights_of(n_pixK)
    /\ UNCHANGED <<err, train, imgs_1, imgs_2, labels, n_pix, n_pixK, cm_rgb_np,
                   cm_encoded, cm_indices_np, corpus, folder, idx, nfolders,
                   nfolder_files, paired, sample>>
    /\ UNCHANGED <<t_vars, c_vars>>

\* the loops are exhausted: lines 172-173.  The counts are Python ints
\* (np.count_nonzero without axis returns one), so 1 / 0 raises.
TrainFinish ==
    /\ pc = "loop"
    /\ train
    /\ IF \E k \in Classes : n_pixK[k] = 0
       THEN /\ pc' = "failed"
            /\ err' = "ZeroDivisionError"
            /\ UNCHANGED weights
       ELSE /\ pc' = "done"
            /\ weights' = weights_of(n_pixK)
            /\ UNCHANGED err
    /\ UNCHANGED <<train, imgs_1, imgs_2, labels, n_pix, n_pixK, cm_rgb_np,
                   cm_encoded, cm_indices_np, corpus, folder, idx, nfolders,
                   nfolder_files, paired, sample>>
    /\ UNCHANGED <<t_vars, c_vars>>

----------------------------------------------------------------------------
(* Inference-mode construction, lines 175-202 *)

\* lines 179-184: the next L3H-SR folder is listed, filtered and sorted
InferOpenFolder ==
    /\ pc = "loop"
    /\ ~train
    /\ nfolders < MaxFolders
    /\ folder' \in FolderInputs
    /\ idx' = 0
    /\ paired' = {}
    /\ nfolders' = nfolders + 1
    /\ pc' = "folder"
    /\ UNCHANGED <<err, train, imgs_1, imgs_2, labels, n_pix, n_pixK, weights,
                   cm_rgb_np, cm_encoded, cm_indices_np, corpus, nfolder_files,
                   sample>>
    /\ UNCHANGED <<t_vars, c_vars>>

\* the index the loop body reads as the 'after' file, line 188
successor(i) == i + 1

\* the guard of the loop body, line 185
has_pair(i, n) == i # SkippedIdx

\* one iteration of the loop of line 184, lines 185-202
InferFile ==
    /\ pc = "folder"
    /\ idx < Len(folder)
    /\ IF has_pair(idx, Len(folder))
       THEN IF successor(idx) < Len(folder)
            THEN LET f == Len(corpus) + 1
                     s1 == folder[idx + 1]
                     s2 == folder[successor(idx) + 1]
                     I1 == imread(<<f, "I1">>, s1[1], s1[2], s1[3])
                     I2 == imread(<<f, "I2">>, s2[1], s2[2], s2[3])
                 IN /\ imgs_1' = imgs_1 \o RasterPatches(I1)
                    /\ imgs_2' = imgs_2 \o RasterPatches(I2)
                    /\ corpus' = Append(corpus, [mask |-> NoMask, I1 |-> s1, I2 |-> s2])
                    /\ paired' = paired \cup {<<idx, successor(idx)>>}
                    /\ idx' = idx + 1
                    /\ UNCHANGED <<pc, err>>
            ELSE /\ pc' = "failed"
                 /\ err' = "IndexError"
                 /\ UNCHANGED <<imgs_1, imgs_2, corpus, paired, idx>>
       ELSE /\ idx' = idx + 1
            /\ UNCHANGED <<pc, err, imgs_1, imgs_2, corpus, paired>>
    /\ UNCHANGED <<train, labels, n_pix, n_pixK, weights, cm_rgb_np, cm_encoded,
                   cm_indices_np, folder, nfolders, nfolder_files, sample>>
    /\ UNCHANGED <<t_vars, c_vars>>

\* the loop of line 184 is exhausted
InferCloseFolder ==
    /\ pc = "folder"
    /\ idx = Len(folder)
    /\ pc' = "loop"
    /\ nfolder_files' = Append(nfolder_files, Len(folder))
    /\ UNCHANGED <<err, train, imgs_1, imgs_2, labels, n_pix, n_pixK, weights,
                   cm_rgb_np, cm_encoded, cm_indices_np, corpus, folder, idx,
                   nfolders, paired, sample>>
    /\ UNCHANGED <<t_vars, c_vars>>

\* the loop of line 175 is exhausted: __init__ returns
InferFinish ==
    /\ pc = "loop"
    /\ ~train
    /\ pc' = "done"
    /\ UNCHANGED <<err, train, imgs_1, imgs_2, labels, n_pix, n_pixK, weights,
                   cm_rgb_np, cm_encoded, cm_indices_np, corpus, folder, idx,
                   nfolders, nfolder_files, paired, sample>>
    /\ UNCHANGED <<t_vars, c_vars>>

----------------------------------------------------------------------------
(* __getitem__, lines 210-220 *)

getitem_clamped(i) ==
    IF InList(imgs_1, i) /\ i >= 0
    THEN [idx |-> i, err |-> "none", keys |-> {"I1", "I2"},
          I1 |-> ListGet(imgs_1, i), I2 |-> NoPatch, label |-> NoPatch]
    ELSE [NoSample EXCEPT !.idx = i, !.err = "IndexError"]

getitem(i) ==
    IF train
    THEN IF InList(imgs_1, i) /\ InList(imgs_2, i) /\ InList(labels, i)
         THEN [idx |-> i, err |-> "none", keys |-> {"I1", "I2", "label"},
               I1 |-> ListGet(imgs_1, i), I2 |-> ListGet(imgs_2, i),
               label |-> ListGet(labels, i)]
         ELSE [NoSample EXCEPT !.idx = i, !.err = "IndexError"]
    ELSE IF InList(imgs_1, i) /\ InList(imgs_2, i)
         THEN [idx |-> i, err |-> "none", keys |-> {"I1", "I2"},
               I1 |-> ListGet(imgs_1, i), I2 |-> ListGet(imgs_2, i),
               label |-> NoPatch]
         ELSE [NoSample EXCEPT !.idx = i, !.err = "IndexError"]

\* the positions asked for: around both ends of each of the three sequences
IdxInputs ==
    UNION { {-n - 1, -n, -1, 0, n - 1, n} :
              n \in {Len(imgs_1), Len(imgs_2), Len(labels)} }

GetItem ==
    /\ pc = "done"
    /\ \E i \in IdxInputs : sample' = getitem(i)
    /\ UNCHANGED <<pc, err, train, imgs_1, imgs_2, labels, n_pix, n_pixK, weights,
                   cm_rgb_np, cm_encoded, cm_indices_np, corpus, folder, idx,
                   nfolders, nfolder_files, paired>>
    /\ UNCHANGED <<t_vars, c_vars>>

----------------------------------------------------------------------------
(* Specifications *)

Init == InitD /\ TIdle /\ CIdle
Next ==
    \/ TrainFile
    \/ TrainFinish
    \/ InferOpenFolder
    \/ InferFile
    \/ InferCloseFolder
    \/ InferFinish
    \/ GetItem
Spec == Init /\ [][Next]_vars

InitTiler == InitT /\ CIdle /\ DIdle
NextTiler == Cut /\ UNCHANGED <<c_vars, d_vars>>
SpecTiler == InitTiler /\ [][NextTiler]_vars

InitCodec == InitC /\ TIdle /\ DIdle
NextCodec ==
    \/ Encode /\ UNCHANGED <<t_vars, d_vars>>
    \/ Decode /\ UNCHANGED <<t_vars, d_vars>>
SpecCodec == InitCodec /\ [][NextCodec]_vars

----------------------------------------------------------------------------
(* Reference notions the properties are stated in *)

\* pixel (row, col) of element `off` of an (H, W, B) C-contiguous raster buffer
RasterPixel(shape, off) ==
    <<off \div (shape[2] * shape[3]), (off \div shape[3]) % shape[2]>>

\* pixel (row, col) of element `off` of an (H, W) C-contiguous mask buffer
MaskPixel(shape, off) == <<off \div shape[2], off % shape[2]>>

\* the pixel of its source image that element [0, y, x] of raster patch q holds
RasterPatchPixel(q, y, x) ==
    LET file == corpus[q.base[1]]
        shape == IF q.base[2] = "I1" THEN file.I1 ELSE file.I2
    IN RasterPixel(shape, q.off + Offset(q.strides, <<0, y, x>>))

\* the pixel of its mask that element [y, x] of label patch q holds
LabelPatchPixel(q, y, x) ==
    MaskPixel(corpus[q.base[1]].mask.shape, q.off + Offset(q.strides, <<y, x>>))

\* the positions within a patch the alignment is compared at
PatchPoints == {0, 1, PatchSize - 1}

\* the class a pixel of this colour stands for: its palette index, else 0
ClassOfColour(rgb) ==
    IF \E k \in Classes : self_color_label_dict(k) = rgb
    THEN CHOOSE k \in Classes : self_color_label_dict(k) = rgb
    ELSE 0

InPalette(rgb) == \E k \in Classes : self_color_label_dict(k) = rgb

\* pixels of class k in the mask file m, counted from the file's colours
MaskTotal(m, k) ==
    SumSeq([r \in DOMAIN m.px |-> IF ClassOfColour(m.px[r]) = k THEN m.len[r] ELSE 0])

\* pixels of class k over all label masks processed so far
Total(k) == SumSeq([f \in DOMAIN corpus |-> MaskTotal(corpus[f].mask, k)])

\* tiles of 256 x 256 that fit the 'before' raster of a processed pair
FullTiles(file) == (file.I1[1] \div PatchSize) * (file.I1[2] \div PatchSize)

----------------------------------------------------------------------------
(* C1: after training-mode construction the patches stored at one position *)
(* of imgs_1, imgs_2 and labels come from the same file and hold the same  *)
(* pixels (row, column) of it: the label mask is cut into the same grid of *)
(* tiles as the rasters.                                                    *)
C1_Aligned ==
    (train /\ pc = "done") =>
        \A i \in 1..Len(imgs_1) :
            /\ i <= Len(imgs_2)
            /\ i <= Len(labels)
            /\ imgs_2[i].base[1] = imgs_1[i].base[1]
            /\ labels[i].base[1] = imgs_1[i].base[1]
            /\ \A y \in PatchPoints, x \in PatchPoints :
                 /\ RasterPatchPixel(imgs_2[i], y, x) = RasterPatchPixel(imgs_1[i], y, x)
                 /\ LabelPatchPixel(labels[i], y, x) = RasterPatchPixel(imgs_1[i], y, x)

(* C2: in inference mode no successor index beyond the end of a folder's   *)
(* list is read, every pair read is (i, i + 1), and a folder of n >= 1     *)
(* files that has been enumerated was paired at exactly i = 0..n-2.        *)
C2_ConsecutivePairs ==
    ~train =>
        /\ err # "IndexError"
        /\ \A pr \in paired : pr[2] = pr[1] + 1 /\ pr[2] < Len(folder)
        /\ (pc = "loop" /\ nfolders > 0 /\ Len(folder) >= 1) =>
              {pr[1] : pr \in paired} = 0..(Len(folder) - 2)

\* element [b, r, c] of the array given to cut_image_strided
SourceAt(b, r, c) == t_mem[Offset(t_image.strides, <<b, r, c>>) + 1]

(* C3: cut_image_strided returns floor(H/Ty) * floor(W/Tx) tiles, shaped    *)
(* (floor(H/Ty), floor(W/Tx), B, Ty, Tx); tile [i, j] element [b, y, x] is *)
(* source[b, i*Ty + y, j*Tx + x]; and when H and W are exact multiples,    *)
(* putting the tiles back at their grid positions gives the source.        *)
C3_Tiles ==
    t_pc = "out" =>
        LET B == t_image.shape[1]
            H == t_image.shape[2]
            W == t_image.shape[3]
            Ty == t_new_size[1]
            Tx == t_new_size[2]
        IN /\ DOMAIN t_tiles = Indices5(<<H \div Ty, W \div Tx, B, Ty, Tx>>)
           /\ Cardinality({<<ix[1], ix[2]>> : ix \in DOMAIN t_tiles})
                = (H \div Ty) * (W \div Tx)
           /\ \A ix \in DOMAIN t_tiles :
                t_tiles[ix] = SourceAt(ix[3], ix[1] * Ty + ix[4], ix[2] * Tx + ix[5])
           /\ (H % Ty = 0 /\ W % Tx = 0) =>
                \A b \in 0..(B - 1), r \in 0..(H - 1), c \in 0..(W - 1) :
                    t_tiles[<<r \div Ty, c \div Tx, b, r % Ty, c % Tx>>]
                      = SourceAt(b, r, c)

\* a transposed two-band image whose last rows and columns fit no tile
C3_Witness ==
    /\ t_pc = "out"
    /\ t_image.shape = <<2, 3, 4>>
    /\ t_image.strides = <<1, 8, 2>>
    /\ t_new_size = <<2, 2>>
    /\ Cardinality(DOMAIN t_tiles) = 16

(* C4: a pixel of class k in 0..7, encoded by mask2rgb and decoded by       *)
(* rgb_to_onehot and argmax, is k again, and its one-hot row holds a       *)
(* single 1, in layer k.                                                    *)
C4_RoundTrip ==
    c_pc = "decoded" =>
        \A p \in DOMAIN c_mask :
            c_mask[p] \in Classes =>
                /\ c_indices[p] = c_mask[p]
                /\ c_encoded[p] =
                     [i \in 1..NumClasses |-> IF i - 1 = c_mask[p] THEN 1 ELSE 0]

C4_Witness ==
    /\ c_pc = "decoded"
    /\ c_mask = <<5, 7>>
    /\ c_indices = <<5, 7>>

(* C5: a pixel whose colour is no palette entry gets an all-zero one-hot   *)
(* row and class 0, and is counted in the running count of class 0.        *)
C5_UnknownIsClass0 ==
    train =>
        /\ \A r \in DOMAIN cm_rgb_np.px :
              ~InPalette(cm_rgb_np.px[r]) =>
                  /\ cm_encoded.px[r] = [i \in 1..NumClasses |-> 0]
                  /\ cm_indices_np.px[r] = 0
        /\ n_pixK[0] =
              SumSeq([f \in DOMAIN corpus |->
                  SumSeq([r \in DOMAIN corpus[f].mask.px |->
                      IF \/ corpus[f].mask.px[r] = self_color_label_dict(0)
                         \/ ~InPalette(corpus[f].mask.px[r])
                      THEN corpus[f].mask.len[r] ELSE 0])])

\* a constructed dataset whose last mask had a foreign colour and no black
C5_Witness ==
    /\ train
    /\ pc = "done"
    /\ \E r \in DOMAIN cm_rgb_np.px : ~InPalette(cm_rgb_np.px[r])
    /\ \A f \in DOMAIN corpus :
          \A r \in DOMAIN corpus[f].mask.px :
              corpus[f].mask.px[r] # self_color_label_dict(0)
    /\ n_pixK[0] > 0

(* C6: the running count of class k is the number of pixels of class k in  *)
(* the masks processed so far, and after training-mode construction        *)
(* weights[k] = 1 / (that total), for every k in 0..7.                     *)
C6_Weights ==
    train =>
        /\ \A k \in Classes : n_pixK[k] = Total(k)
        /\ pc = "done" =>
              /\ Len(weights) = NumClasses
              /\ \A k \in Classes : weights[k + 1] = <<1, Total(k)>>

C6_Witness ==
    /\ train
    /\ pc = "done"
    /\ Len(corpus) = 2
    /\ corpus[1].mask # corpus[2].mask
    /\ weights[1] # weights[2]

(* C7: when the loops of training-mode construction are exhausted and some *)
(* class has no pixel in the masks processed (an empty corpus included),   *)
(* construction fails with a division by zero and sets no weights.         *)
C7_ZeroClassFails ==
    (/\ train
     /\ pc \in {"done", "failed"}
     /\ err # "ValueError"
     /\ \E k \in Classes : Total(k) = 0)
        => /\ pc = "failed"
           /\ err = "ZeroDivisionError"
           /\ weights = None

\* masks were processed, class 7 never occurred
C7_Witness ==
    /\ train
    /\ err = "ZeroDivisionError"
    /\ Len(corpus) = 2
    /\ Total(0) > 0
    /\ Total(7) = 0

(* C8: after a construction that completes, __len__ is the sum over the    *)
(* processed pairs of floor(H/256) * floor(W/256), H and W the size of the *)
(* pair's 'before' image.                                                   *)
C8_Len ==
    pc = "done" =>
        DatasetLen = SumSeq([f \in DOMAIN corpus |-> FullTiles(corpus[f])])

C8_Witness ==
    /\ pc = "done"
    /\ Len(corpus) = 2
    /\ corpus[1].I1 = <<1000, 1030, 3>>
    /\ corpus[2].I1 = <<1024, 1024, 4>>
    /\ DatasetLen = 28

\* __getitem__ has been called
Called == sample # NoSample

(* C9 as stated: __getitem__(idx) fails with an index error for every idx  *)
(* outside 0..n-1 and returns a record with keys I1, I2 and (training      *)
(* only) label for every idx in 0..n-1.                                     *)
C9_Original ==
    (pc = "done" /\ Called) =>
        IF sample.idx \in 0..(DatasetLen - 1)
        THEN /\ sample.err = "none"
             /\ sample.keys = IF train THEN {"I1", "I2", "label"} ELSE {"I1", "I2"}
        ELSE sample.err = "IndexError"

\* idx is a position of Python list s, counting from the end when negative
Position(s, i) == IF i >= 0 THEN i + 1 ELSE Len(s) + i + 1

(* C9 amended: __getitem__(idx) fails with an index error for every        *)
(* idx >= n and every idx < -n; for idx in -n..n-1 it returns the record   *)
(* with keys I1, I2 and (training only) label, a negative idx counting     *)
(* from the end of each sequence, exactly when idx is also within          *)
(* -len..len-1 of imgs_2 and (training only) labels, and fails with an     *)
(* index error otherwise.                                                   *)
C9_Amended ==
    (pc = "done" /\ Called) =>
        LET i == sample.idx
            n == DatasetLen
            others == IF train THEN {imgs_2, labels} ELSE {imgs_2}
        IN IF /\ -n <= i
              /\ i < n
              /\ \A s \in others : -Len(s) <= i /\ i < Len(s)
           THEN /\ sample.err = "none"
                /\ sample.keys = IF train THEN {"I1", "I2", "label"}
                                          ELSE {"I1", "I2"}
                /\ sample.I1 = imgs_1[Position(imgs_1, i)]
                /\ sample.I2 = imgs_2[Position(imgs_2, i)]
                /\ train => sample.label = labels[Position(labels, i)]
           ELSE /\ sample.err = "IndexError"
                /\ sample.keys = {}

\* a negative position served from the end of the sequences
C9_Witness ==
    /\ pc = "done"
    /\ train
    /\ sample.idx = -1
    /\ sample.err = "none"
    /\ sample.I1 = imgs_1[Len(imgs_1)]

(* C10: during and after training-mode construction the three sequences   *)
(* have the same length after every file processed.                        *)
C10_EqualLengths ==
    (train /\ pc \in {"loop", "done"}) =>
        /\ Len(imgs_1) = Len(imgs_2)
        /\ Len(imgs_2) = Len(labels)

====
